---- MODULE Spec2Model ----
(***************************************************************************)
(* Model of github.com/andreyvit/httpsimplified/v2 (package httpsimp):     *)
(* the parser model (Parser, MakeParser, options), StatusSpec.Matches, the *)
(* single-parser match parse, the ordered resolution Parse with its        *)
(* fallback chain, and the request execution Do.                           *)
(*                                                                         *)
(* One Parse call is modelled step by step: one action per iteration of    *)
(* each of its two loops, so that the order in which parsers are tried and *)
(* the single consumption of the response body are observable.            *)
(***************************************************************************)
EXTENDS Integers, Sequences, FiniteSets, TLC

\* ------------------------------------------------------------------ bounds

\* Longest caller-supplied parser list explored.
MaxParsers == 2

\* Largest status code handed to StatusSpec.Matches and to the error helpers
\* when they are exercised on their own (codes 0..MaxStatus).
MaxStatus == 650

\* Longest option list handed to a parser factory exercised on its own.
MaxOptions == 3

\* ------------------------------------------------- constants of the package

ContentTypeJSON == "application/json"
ContentTypeTextPlain == "text/plain"

StatusNone == 0
StatusAny == -1500
Status1xx == -100
Status2xx == -200
Status3xx == -300
Status4xx == -400
Status5xx == -500
Status4xx5xx == -900
StatusOK == 200
StatusNotFound == 404

\* --------------------------------------------------------- value universe

\* Go values that travel through interface{} slots and responseError.Body.
\* Every value is a record [t, v] so that any two of them can be compared.
NilVal == [t |-> "nil", v |-> ""]
StringVal(s) == [t |-> "string", v |-> s]
BytesVal(s) == [t |-> "bytes", v |-> s]
JSONVal(s) == [t |-> "json", v |-> s]
ResponseVal == [t |-> "*http.Response", v |-> ""]

\* Go error values.  NilErr is the nil error.
NilErr == [type |-> "nil"]
PlainErr(msg) == [type |-> "error", msg |-> msg]

\* ------------------------------------------------------ the inputs explored

\* Status codes of the responses explored: below the valid range, 1xx, 2xx,
\* 4xx, 5xx, and above the valid range.
StatusCodes == {99, 101, 200, 404, 503, 600}

\* Content-Type header values of the responses explored; "" is a response
\* without a Content-Type header.
HeaderValues ==
    {"application/json", "text/plain", "text/plain; charset=utf-8", "image/png", ""}

\* Response bodies explored: [content, readErr].  content is the data the
\* stream delivers; readErr says that the stream then fails instead of
\* reporting EOF.  "<ff>" stands for the single byte 0xFF.
MkBody(c, e) == [content |-> c, readErr |-> e]
Bodies ==
    { MkBody("{\"foo\": 42}", FALSE), MkBody("foo", FALSE),
      MkBody("<ff>", FALSE), MkBody("{\"foo\"", TRUE) }

Responses ==
    [StatusCode : StatusCodes, Header : HeaderValues, Body : Bodies]

\* Requests handed to Do: only the method and the URL path are used.
Requests == { [Method |-> "GET", Path |-> "/a"], [Method |-> "PUT", Path |-> ""] }
NoRequest == [Method |-> "", Path |-> ""]

\* ------------------------------------------------ standard-library helpers

\* Header values that mime.ParseMediaType rejects: no media type at all,
\* and a parameter without a value.
MalformedHeaders == {"", "text/plain; charset"}

\* mime.ParseMediaType on a header value that is malformed, or the
\* parameterised value explored, or a bare lower-case media type: an error
\* for a malformed value only; otherwise the bare media type, the
\* parameters dropped.
ParseMediaType(h) ==
    CASE h \in MalformedHeaders -> [ok |-> FALSE, ctype |-> ""]
      [] h = "text/plain; charset=utf-8" -> [ok |-> TRUE, ctype |-> "text/plain"]
      [] OTHER -> [ok |-> TRUE, ctype |-> h]

\* ioutil.ReadAll: the data delivered and the read error, if any.
ReadAll(body) ==
    [b |-> body.content,
     err |-> IF body.readErr THEN PlainErr("read failed") ELSE NilErr]

\* Variant of Utf8Valid: every content passes.
Utf8ValidAlways(b) == TRUE

\* utf8.Valid on the contents explored.
Utf8Valid(b) == b # "<ff>"

\* json.NewDecoder(body).Decode(&x) for x of type interface{} holding old:
\* a complete JSON value replaces x; otherwise x is left as it was and the
\* syntax error (or the read error, when the data ends early) is returned.
JSONDecode(body, old) ==
    CASE body.content = "{\"foo\": 42}" -> [val |-> JSONVal("map[foo:42]"), err |-> NilErr]
      [] body.content = "{\"bar\": 7}" -> [val |-> JSONVal("map[bar:7]"), err |-> NilErr]
      [] body.content = "{\"foo\"" /\ body.readErr -> [val |-> old, err |-> PlainErr("read failed")]
      [] OTHER -> [val |-> old, err |-> PlainErr("invalid character")]

\* ------------------------------------------------------------ StatusSpec

\* Variant of MatchesPanics: StatusNone and StatusAny are answered before the
\* actual status is validated.
MatchesPanicsAfterSwitch(desired, actual) ==
    /\ desired \notin {StatusNone, StatusAny}
    /\ \/ actual < 100 \/ actual > 599
       \/ /\ desired \notin {Status1xx, Status2xx, Status3xx,
                             Status4xx, Status5xx, Status4xx5xx}
          /\ (desired < 100 \/ desired > 599)

\* The panics of StatusSpec.Matches: an actual status outside [100,599], or
\* a desired value that is neither a special constant nor in [100,599].
MatchesPanics(desired, actual) ==
    \/ actual < 100 \/ actual > 599
    \/ /\ desired \notin {StatusNone, StatusAny, Status1xx, Status2xx, Status3xx,
                          Status4xx, Status5xx, Status4xx5xx}
       /\ (desired < 100 \/ desired > 599)

\* Variant of Matches: Status4xx5xx stops at 499.
MatchesWithout5xx(desired, actual) ==
    CASE desired = StatusNone -> FALSE
      [] desired = StatusAny -> TRUE
      [] desired = Status1xx -> (actual >= 100 /\ actual <= 199)
      [] desired = Status2xx -> (actual >= 200 /\ actual <= 299)
      [] desired = Status3xx -> (actual >= 300 /\ actual <= 399)
      [] desired = Status4xx -> (actual >= 400 /\ actual <= 499)
      [] desired = Status5xx -> (actual >= 500 /\ actual <= 599)
      [] desired = Status4xx5xx -> (actual >= 400 /\ actual <= 499)
      [] OTHER -> actual = desired

\* StatusSpec.Matches where it returns.
Matches(desired, actual) ==
    CASE desired = StatusNone -> FALSE
      [] desired = StatusAny -> TRUE
      [] desired = Status1xx -> (actual >= 100 /\ actual <= 199)
      [] desired = Status2xx -> (actual >= 200 /\ actual <= 299)
      [] desired = Status3xx -> (actual >= 300 /\ actual <= 399)
      [] desired = Status4xx -> (actual >= 400 /\ actual <= 499)
      [] desired = Status5xx -> (actual >= 500 /\ actual <= 599)
      [] desired = Status4xx5xx -> (actual >= 400 /\ actual <= 599)
      [] OTHER -> actual = desired

\* ---------------------------------------------------- Parser and options

\* A Parser: ctype, statusSpec, retErr, and parseBody, which is given by the
\* factory that built it (kind) and the output slot the factory captured.
Kinds == {"Raw", "JSON", "Bytes", "PlainText", "None"}

\* Parse options.  Every option is a record [opt, ctype, spec].
ContentType(ctype) == [opt |-> "ContentType", ctype |-> ctype, spec |-> 0]
ReturnError == [opt |-> "ReturnError", ctype |-> "", spec |-> 0]
StatusOpt(s) == [opt |-> "StatusSpec", ctype |-> "", spec |-> s]

\* Variant of applyToParser: ContentType also resets the status predicate.
applyToParserResettingStatus(o, p) ==
    CASE o.opt = "ContentType" -> [p EXCEPT !.ctype = o.ctype, !.statusSpec = Status2xx]
      [] o.opt = "ReturnError" -> [p EXCEPT !.retErr = TRUE]
      [] o.opt = "StatusSpec" -> [p EXCEPT !.statusSpec = o.spec]

\* o.applyToParser(&p) for each of the three option types.
applyToParser(o, p) ==
    CASE o.opt = "ContentType" -> [p EXCEPT !.ctype = o.ctype]
      [] o.opt = "ReturnError" -> [p EXCEPT !.retErr = TRUE]
      [] o.opt = "StatusSpec" -> [p EXCEPT !.statusSpec = o.spec]

RECURSIVE applyAll(_, _)
applyAll(mopt, p) ==
    IF mopt = <<>> THEN p
    ELSE applyAll(Tail(mopt), applyToParser(Head(mopt), p))

\* Variant of MakeParser: the parser is seeded with StatusAny.
MakeParserAnyStatus(defaultCtype, mopt, kind) ==
    applyAll(mopt, [ctype |-> defaultCtype, statusSpec |-> StatusAny,
                    retErr |-> FALSE, kind |-> kind])

\* Variant of MakeParser: the options are applied last to first.
MakeParserReversed(defaultCtype, mopt, kind) ==
    applyAll([i \in 1..Len(mopt) |-> mopt[Len(mopt) + 1 - i]],
             [ctype |-> defaultCtype, statusSpec |-> Status2xx,
              retErr |-> FALSE, kind |-> kind])

MakeParser(defaultCtype, mopt, kind) ==
    applyAll(mopt, [ctype |-> defaultCtype, statusSpec |-> Status2xx,
                    retErr |-> FALSE, kind |-> kind])

\* The built-in factories.
Raw(mopt) == MakeParser("", mopt, "Raw")
JSON(mopt) == MakeParser(ContentTypeJSON, mopt, "JSON")
Bytes(mopt) == MakeParser("", mopt, "Bytes")
PlainText(mopt) == MakeParser("", mopt, "PlainText")
None(mopt) == MakeParser("", mopt, "None")

\* The package-level fallback chain.
fallbackParsers ==
    << JSON(<<StatusOpt(Status4xx5xx), ReturnError>>),
       PlainText(<<StatusOpt(Status4xx5xx), ContentType(ContentTypeTextPlain), ReturnError>>),
       None(<<StatusOpt(StatusAny), ReturnError>>) >>

\* The parsers a caller passes in the runs explored.
ParserPool ==
    { JSON(<<>>),
      PlainText(<<>>),
      JSON(<<StatusOpt(Status4xx5xx)>>),
      Bytes(<<ContentType("image/png"), StatusOpt(StatusAny), ReturnError>>),
      Raw(<<>>),
      None(<<StatusOpt(StatusNotFound)>>) }

ParserLists == UNION { [1..n -> ParserPool] : n \in 0..MaxParsers }

\* ------------------------------------------------------------- errors

\* &responseError{...}
responseError(code, ctype, wanted, ctypeOK, body, decErr) ==
    [type |-> "responseError", StatusCode |-> code, ContentType |-> ctype,
     WantedContentType |-> wanted, ContentTypeOK |-> ctypeOK,
     Body |-> body, DecodingError |-> decErr]

\* &wrapperError{Method, Path, Cause}
wrapperError(method, path, cause) ==
    [type |-> "wrapperError", Method |-> method, Path |-> path, Cause |-> cause]

\* Variant of getResponseError: a wrapperError is not looked into.
getResponseErrorNoUnwrap(err) ==
    IF err.type = "responseError" THEN err ELSE NilErr

\* getResponseError: the *responseError that err is, or that err wraps as the
\* Cause of one wrapperError; nil (NilErr) otherwise.
getResponseError(err) ==
    LET e == IF err.type = "wrapperError" THEN err.Cause ELSE err
    IN IF e.type = "responseError" THEN e ELSE NilErr

StatusCode(err) ==
    LET e == getResponseError(err)
    IN IF e # NilErr THEN e.StatusCode ELSE 0

Is5xx(err) ==
    LET code == StatusCode(err)
    IN (code # 0) /\ (code >= 500 /\ code <= 599)

Is4xx(err) ==
    LET code == StatusCode(err)
    IN (code # 0) /\ (code >= 400 /\ code <= 499)

\* ---------------------------------------------------- the body decoders

\* What a caller's output variable holds before the call.
InitSlot(kind) == IF kind = "PlainText" THEN StringVal("") ELSE NilVal

\* Variant of parseBody: a decoder that fails returns without closing the
\* response body.
parseBodyOpenOnFailure(kind, resp, slot) ==
    CASE kind = "Raw" ->
           [body |-> NilVal, err |-> NilErr, slot |-> ResponseVal,
            read |-> FALSE, closed |-> FALSE]
      [] kind = "JSON" ->
           LET d == JSONDecode(resp.Body, slot)
           IN [body |-> d.val, err |-> d.err, slot |-> d.val,
               read |-> TRUE, closed |-> (d.err = NilErr)]
      [] kind = "Bytes" ->
           LET r == ReadAll(resp.Body)
               err == IF r.err # NilErr THEN PlainErr("error reading body") ELSE NilErr
           IN [body |-> BytesVal(r.b), err |-> err, slot |-> BytesVal(r.b),
               read |-> TRUE, closed |-> (err = NilErr)]
      [] kind = "PlainText" ->
           LET r == ReadAll(resp.Body)
               err == IF r.err # NilErr THEN PlainErr("error reading body") ELSE NilErr
           IN IF ~Utf8Valid(r.b)
              THEN [body |-> BytesVal(r.b), err |-> PlainErr("invalid utf-8 sequence encountered"),
                    slot |-> slot, read |-> TRUE, closed |-> FALSE]
              ELSE [body |-> StringVal(r.b), err |-> err, slot |-> StringVal(r.b),
                    read |-> TRUE, closed |-> (err = NilErr)]
      [] kind = "None" ->
           [body |-> NilVal, err |-> NilErr, slot |-> slot,
            read |-> FALSE, closed |-> TRUE]

\* The parseBody closure of each factory, run on resp with the captured
\* output variable holding slot: the returned (body, err), the variable
\* afterwards, and whether the response body was read and was closed.
parseBody(kind, resp, slot) ==
    CASE kind = "Raw" ->
           [body |-> NilVal, err |-> NilErr, slot |-> ResponseVal,
            read |-> FALSE, closed |-> FALSE]
      [] kind = "JSON" ->
           LET d == JSONDecode(resp.Body, slot)
           IN [body |-> d.val, err |-> d.err, slot |-> d.val,
               read |-> TRUE, closed |-> TRUE]
      [] kind = "Bytes" ->
           LET r == ReadAll(resp.Body)
               err == IF r.err # NilErr THEN PlainErr("error reading body") ELSE NilErr
           IN [body |-> BytesVal(r.b), err |-> err, slot |-> BytesVal(r.b),
               read |-> TRUE, closed |-> TRUE]
      [] kind = "PlainText" ->
           LET r == ReadAll(resp.Body)
               err == IF r.err # NilErr THEN PlainErr("error reading body") ELSE NilErr
           IN IF ~Utf8Valid(r.b)
              THEN [body |-> BytesVal(r.b), err |-> PlainErr("invalid utf-8 sequence encountered"),
                    slot |-> slot, read |-> TRUE, closed |-> TRUE]
              ELSE [body |-> StringVal(r.b), err |-> err, slot |-> StringVal(r.b),
                    read |-> TRUE, closed |-> TRUE]
      [] kind = "None" ->
           [body |-> NilVal, err |-> NilErr, slot |-> slot,
            read |-> FALSE, closed |-> TRUE]

\* ------------------------------------------------- the single-parser match

\* The results of parse(resp, p), with p's output variable holding slot, are
\* records: panic (Matches panicked); matched, err (the two results);
\* invoked (parseBody was called); slot, read, closed (what parseBody did to
\* the output variable and to the response body).
\* Variant of untouched: a parser that is passed over stores the response in
\* its output variable.
untouchedButStored(slot) ==
    [invoked |-> FALSE, slot |-> ResponseVal, read |-> FALSE, closed |-> FALSE]

untouched(slot) == [invoked |-> FALSE, slot |-> slot, read |-> FALSE, closed |-> FALSE]

\* Variant of mismatch: the decoder runs before the predicates are looked at.
mismatchAfterDecoding(resp, p, slot, ctype, ctypeOK) ==
    LET d == parseBody(p.kind, resp, slot)
    IN [panic |-> FALSE, matched |-> FALSE,
        err |-> responseError(resp.StatusCode, ctype, p.ctype, ctypeOK, NilVal, NilErr),
        invoked |-> TRUE, slot |-> d.slot, read |-> d.read, closed |-> d.closed]

\* Variant of mismatch: the diagnostic does not carry the status code.
mismatchWithoutStatus(resp, p, slot, ctype, ctypeOK) ==
    [panic |-> FALSE, matched |-> FALSE,
     err |-> responseError(0, ctype, p.ctype, ctypeOK, NilVal, NilErr)]
    @@ untouched(slot)

\* Variant of mismatch: the diagnostic always blames the content type.
mismatchBlamingContentType(resp, p, slot, ctype, ctypeOK) ==
    [panic |-> FALSE, matched |-> FALSE,
     err |-> responseError(resp.StatusCode, ctype, p.ctype, FALSE, NilVal, NilErr)]
    @@ untouched(slot)

\* if !ctypeOK || !statusOK { return false, &responseError{...} }
mismatch(resp, p, slot, ctype, ctypeOK) ==
    [panic |-> FALSE, matched |-> FALSE,
     err |-> responseError(resp.StatusCode, ctype, p.ctype, ctypeOK, NilVal, NilErr)]
    @@ untouched(slot)

\* Variant of match: an error is reported only when decoding failed.
matchIgnoringRetErr(resp, p, slot, ctype) ==
    LET d == parseBody(p.kind, resp, slot)
    IN [panic |-> FALSE, matched |-> TRUE,
        err |-> IF d.err # NilErr
                THEN responseError(resp.StatusCode, ctype, p.ctype, TRUE, d.body, d.err)
                ELSE NilErr,
        invoked |-> TRUE, slot |-> d.slot, read |-> d.read, closed |-> d.closed]

\* body, bodyErr := p.parseBody(resp); if p.retErr || bodyErr != nil {...}
match(resp, p, slot, ctype) ==
    LET d == parseBody(p.kind, resp, slot)
    IN [panic |-> FALSE, matched |-> TRUE,
        err |-> IF p.retErr \/ d.err # NilErr
                THEN responseError(resp.StatusCode, ctype, p.ctype, TRUE, d.body, d.err)
                ELSE NilErr,
        invoked |-> TRUE, slot |-> d.slot, read |-> d.read, closed |-> d.closed]

\* Variant of parse: the expected content type is compared with the whole
\* header value, parameters included.
parseComparingHeader(resp, p, slot) ==
    LET mt == ParseMediaType(resp.Header)
    IN IF ~mt.ok
       THEN [panic |-> FALSE, matched |-> FALSE,
             err |-> PlainErr("cannot parse Content-Type string")] @@ untouched(slot)
       ELSE LET ctypeOK == (p.ctype = "" \/ resp.Header = p.ctype)
            IN IF MatchesPanics(p.statusSpec, resp.StatusCode)
               THEN [panic |-> TRUE, matched |-> FALSE, err |-> NilErr] @@ untouched(slot)
               ELSE IF ~ctypeOK \/ ~Matches(p.statusSpec, resp.StatusCode)
                    THEN mismatch(resp, p, slot, mt.ctype, ctypeOK)
                    ELSE match(resp, p, slot, mt.ctype)

\* Variant of parse: a Content-Type header that does not parse counts as
\* the empty media type and the predicates are evaluated all the same.
parseIgnoringHeaderError(resp, p, slot) ==
    LET mt == ParseMediaType(resp.Header)
        ctypeOK == (p.ctype = "" \/ mt.ctype = p.ctype)
    IN IF MatchesPanics(p.statusSpec, resp.StatusCode)
       THEN [panic |-> TRUE, matched |-> FALSE, err |-> NilErr] @@ untouched(slot)
       ELSE IF ~ctypeOK \/ ~Matches(p.statusSpec, resp.StatusCode)
            THEN mismatch(resp, p, slot, mt.ctype, ctypeOK)
            ELSE match(resp, p, slot, mt.ctype)

parse(resp, p, slot) ==
    LET mt == ParseMediaType(resp.Header)
    IN IF ~mt.ok
       THEN [panic |-> FALSE, matched |-> FALSE,
             err |-> PlainErr("cannot parse Content-Type string")] @@ untouched(slot)
       ELSE LET ctypeOK == (p.ctype = "" \/ mt.ctype = p.ctype)
            IN IF MatchesPanics(p.statusSpec, resp.StatusCode)
               THEN [panic |-> TRUE, matched |-> FALSE, err |-> NilErr] @@ untouched(slot)
               ELSE IF ~ctypeOK \/ ~Matches(p.statusSpec, resp.StatusCode)
                    THEN mismatch(resp, p, slot, mt.ctype, ctypeOK)
                    ELSE match(resp, p, slot, mt.ctype)

\* ------------------------------------------------------------------ state

VARIABLES
    pc,         \* "idle", "parsers" (first loop of Parse), "fallback" (second
                \* loop), "returned", "panicked"
    entry,      \* "Do" or "Parse": the function the caller called
    req,        \* the request given to Do
    resp,       \* the response being parsed
    parsers,    \* the caller-supplied parsers
    idx,        \* index of the next parser of the running loop
    firstErr,   \* Parse's local firstErr
    slots,      \* the callers' output variables, one per caller parser
    bodyRead,   \* resp.Body has been read
    bodyClosed, \* resp.Body has been closed
    fbJSONBody, \* the variable captured by fallbackParsers[0] (JSON(nil, ...))
    fbTextBody, \* the variable captured by fallbackParsers[1] (PlainText(nil, ...))
    tried,      \* history: the parsers handed to parse, in order
    invoked,    \* history: the parsers whose parseBody was called, in order
    parseRet,   \* what Parse returned
    ret,        \* what the entry function returned
    call,       \* the function called, with its arguments, when a function of
                \* the package is exercised on its own; under ConcSpec, the
                \* state of each goroutine
    result      \* what that call returned; under ConcSpec, what each
                \* goroutine's Parse returned

vars == <<pc, entry, req, resp, parsers, idx, firstErr, slots, bodyRead, bodyClosed,
          fbJSONBody, fbTextBody, tried, invoked, parseRet, ret, call, result>>

\* No function is exercised on its own.
NoCall == [fn |-> "none"]

NoResponse == [StatusCode |-> 0, Header |-> "", Body |-> MkBody("", FALSE)]

Caller(i) == [list |-> "parsers", i |-> i]
Fallback(i) == [list |-> "fallbackParsers", i |-> i]

\* The variable captured by fallback parser i.
fallbackSlot(i) ==
    CASE i = 1 -> fbJSONBody
      [] i = 2 -> fbTextBody
      [] OTHER -> NilVal

\* The state of a process that has made no call yet: the package-level
\* variables as initialised, no Parse in progress.
ProcessInit ==
    /\ pc = "idle"
    /\ entry = "Parse"
    /\ req = NoRequest
    /\ resp = NoResponse
    /\ parsers = <<>>
    /\ idx = 1
    /\ firstErr = NilErr
    /\ slots = <<>>
    /\ bodyRead = FALSE
    /\ bodyClosed = FALSE
    /\ fbJSONBody = NilVal
    /\ fbTextBody = StringVal("")
    /\ tried = <<>>
    /\ invoked = <<>>
    /\ parseRet = NilErr
    /\ ret = NilErr

Init ==
    /\ ProcessInit
    /\ call = NoCall
    /\ result = NoCall

\* Parse(resp, parsers...) is entered: firstErr is nil, the first loop
\* starts (or, for an empty list, the second).
EnterParse(e, r, rsp, ps) ==
    /\ pc' = IF Len(ps) = 0 THEN "fallback" ELSE "parsers"
    /\ entry' = e
    /\ req' = r
    /\ resp' = rsp
    /\ parsers' = ps
    /\ slots' = [k \in 1..Len(ps) |-> InitSlot(ps[k].kind)]
    /\ UNCHANGED <<idx, firstErr, bodyRead, bodyClosed, fbJSONBody, fbTextBody,
                   tried, invoked, parseRet, ret>>
    /\ UNCHANGED <<call, result>>

\* A caller calls Parse directly with a response obtained elsewhere.
ParseCall ==
    /\ pc = "idle"
    /\ \E rsp \in Responses, ps \in ParserLists :
         EnterParse("Parse", NoRequest, rsp, ps)

\* Do: client.Do(r) produced a response; Parse is called on it.
Do ==
    /\ pc = "idle"
    /\ \E r \in Requests, rsp \in Responses, ps \in ParserLists :
         EnterParse("Do", r, rsp, ps)

\* Do: client.Do(r) failed; the transport error is wrapped and returned.
DoTransportError ==
    /\ pc = "idle"
    /\ \E r \in Requests, ps \in ParserLists :
         /\ entry' = "Do"
         /\ req' = r
         /\ parsers' = ps
         /\ slots' = [k \in 1..Len(ps) |-> InitSlot(ps[k].kind)]
         /\ ret' = wrapperError(r.Method, r.Path, PlainErr("transport"))
    /\ pc' = "returned"
    /\ UNCHANGED <<resp, idx, firstErr, bodyRead, bodyClosed, fbJSONBody, fbTextBody,
                   tried, invoked, parseRet>>
    /\ UNCHANGED <<call, result>>

\* Variant of rememberFirst: every non-match overwrites firstErr.
rememberLast(first, err) == err

\* if firstErr == nil { firstErr = err }
rememberFirst(first, err) == IF first = NilErr THEN err ELSE first

\* Variant of fallbackResult: the index of the fallback is not looked at.
fallbackResultAnyIndex(i, err, first) == IF err # NilErr THEN first ELSE err

\* The result of Parse when fallback parser i matched with outcome err:
\* if i == len(fallbackParsers)-1 && err != nil { err = firstErr }; return err
fallbackResult(i, err, first) ==
    IF i = Len(fallbackParsers) /\ err # NilErr THEN first ELSE err

\* Variant of Return: Do hands Parse's error on as it is.
ReturnUnwrapped(err) ==
    /\ pc' = "returned"
    /\ parseRet' = err
    /\ ret' = err

\* Parse returns err; Do wraps a non-nil err with the request's method and path.
Return(err) ==
    /\ pc' = "returned"
    /\ parseRet' = err
    /\ ret' = IF entry = "Do" /\ err # NilErr
              THEN wrapperError(req.Method, req.Path, err)
              ELSE err

\* Variant of ParsersLoop: a match does not end the loop while parsers remain.
ParsersLoopPastMatch ==
    /\ pc = "parsers"
    /\ idx <= Len(parsers)
    /\ LET m == parse(resp, parsers[idx], slots[idx])
       IN /\ tried' = Append(tried, Caller(idx))
          /\ invoked' = IF m.invoked THEN Append(invoked, Caller(idx)) ELSE invoked
          /\ slots' = [slots EXCEPT ![idx] = m.slot]
          /\ bodyRead' = (bodyRead \/ m.read)
          /\ bodyClosed' = (bodyClosed \/ m.closed)
          /\ IF m.panic
             THEN /\ pc' = "panicked"
                  /\ UNCHANGED <<idx, firstErr, parseRet, ret>>
             ELSE IF m.matched /\ idx = Len(parsers)
             THEN /\ Return(m.err)
                  /\ UNCHANGED <<idx, firstErr>>
             ELSE /\ firstErr' = rememberFirst(firstErr, m.err)
                  /\ IF idx = Len(parsers)
                     THEN pc' = "fallback" /\ idx' = 1
                     ELSE pc' = "parsers" /\ idx' = idx + 1
                  /\ UNCHANGED <<parseRet, ret>>
    /\ UNCHANGED <<entry, req, resp, parsers, fbJSONBody, fbTextBody>>
    /\ UNCHANGED <<call, result>>

\* One iteration of  for _, p := range parsers.
ParsersLoop ==
    /\ pc = "parsers"
    /\ idx <= Len(parsers)
    /\ LET m == parse(resp, parsers[idx], slots[idx])
       IN /\ tried' = Append(tried, Caller(idx))
          /\ invoked' = IF m.invoked THEN Append(invoked, Caller(idx)) ELSE invoked
          /\ slots' = [slots EXCEPT ![idx] = m.slot]
          /\ bodyRead' = (bodyRead \/ m.read)
          /\ bodyClosed' = (bodyClosed \/ m.closed)
          /\ IF m.panic
             THEN /\ pc' = "panicked"
                  /\ UNCHANGED <<idx, firstErr, parseRet, ret>>
             ELSE IF m.matched
             THEN /\ Return(m.err)
                  /\ UNCHANGED <<idx, firstErr>>
             ELSE /\ firstErr' = rememberFirst(firstErr, m.err)
                  /\ IF idx = Len(parsers)
                     THEN pc' = "fallback" /\ idx' = 1
                     ELSE pc' = "parsers" /\ idx' = idx + 1
                  /\ UNCHANGED <<parseRet, ret>>
    /\ UNCHANGED <<entry, req, resp, parsers, fbJSONBody, fbTextBody>>
    /\ UNCHANGED <<call, result>>

\* One iteration of  for i, p := range fallbackParsers.
FallbackLoop ==
    /\ pc = "fallback"
    /\ idx <= Len(fallbackParsers)
    /\ LET m == parse(resp, fallbackParsers[idx], fallbackSlot(idx))
       IN /\ tried' = Append(tried, Fallback(idx))
          /\ invoked' = IF m.invoked THEN Append(invoked, Fallback(idx)) ELSE invoked
          /\ fbJSONBody' = IF idx = 1 THEN m.slot ELSE fbJSONBody
          /\ fbTextBody' = IF idx = 2 THEN m.slot ELSE fbTextBody
          /\ bodyRead' = (bodyRead \/ m.read)
          /\ bodyClosed' = (bodyClosed \/ m.closed)
          /\ IF m.panic
             THEN /\ pc' = "panicked"
                  /\ UNCHANGED <<idx, parseRet, ret>>
             ELSE IF m.matched
             THEN /\ Return(fallbackResult(idx, m.err, firstErr))
                  /\ UNCHANGED idx
             ELSE /\ pc' = "fallback"
                  /\ idx' = idx + 1
                  /\ UNCHANGED <<parseRet, ret>>
    /\ UNCHANGED <<entry, req, resp, parsers, firstErr, slots>>
    /\ UNCHANGED <<call, result>>

\* Variant of ParseReturnNil: after the last fallback the second loop
\* starts over.
ParseRetriesFallbacks ==
    /\ pc = "fallback"
    /\ idx > Len(fallbackParsers)
    /\ idx' = 1
    /\ tried' = SubSeq(tried, 1, Len(parsers))
    /\ UNCHANGED <<pc, entry, req, resp, parsers, firstErr, slots, bodyRead, bodyClosed,
                   fbJSONBody, fbTextBody, invoked, parseRet, ret>>
    /\ UNCHANGED <<call, result>>

\* The second loop ended without a match: the final  return nil.
ParseReturnNil ==
    /\ pc = "fallback"
    /\ idx > Len(fallbackParsers)
    /\ Return(NilErr)
    /\ UNCHANGED <<entry, req, resp, parsers, idx, firstErr, slots, bodyRead, bodyClosed,
                   fbJSONBody, fbTextBody, tried, invoked>>
    /\ UNCHANGED <<call, result>>

\* The caller has the result (or recovered from the panic) and the process
\* goes on to its next call; only the package-level variables persist.
NextCall ==
    /\ pc \in {"returned", "panicked"}
    /\ pc' = "idle"
    /\ entry' = "Parse"
    /\ req' = NoRequest
    /\ resp' = NoResponse
    /\ parsers' = <<>>
    /\ idx' = 1
    /\ firstErr' = NilErr
    /\ slots' = <<>>
    /\ bodyRead' = FALSE
    /\ bodyClosed' = FALSE
    /\ tried' = <<>>
    /\ invoked' = <<>>
    /\ parseRet' = NilErr
    /\ ret' = NilErr
    /\ UNCHANGED <<fbJSONBody, fbTextBody>>
    /\ UNCHANGED <<call, result>>

Next ==
    \/ ParseCall
    \/ Do
    \/ DoTransportError
    \/ ParsersLoop
    \/ FallbackLoop
    \/ ParseReturnNil
    \/ NextCall

Spec == Init /\ [][Next]_vars

\* ------------------------------------- functions exercised on their own

\* The StatusSpec values handed to Matches: the special constants, valid
\* exact codes, and values that are neither.
SpecialSpecs ==
    {StatusNone, StatusAny, Status1xx, Status2xx, Status3xx, Status4xx, Status5xx,
     Status4xx5xx}
DesiredSpecs == SpecialSpecs \cup {-1, 99, 100, StatusOK, StatusNotFound, 599, 600}

\* The variables of a running Parse, which these calls leave alone.
parseVars ==
    <<pc, entry, req, resp, parsers, idx, firstErr, slots, bodyRead, bodyClosed,
      fbJSONBody, fbTextBody, tried, invoked, parseRet, ret>>

\* desired.Matches(actual) is called: it panics or returns a boolean.
CallMatches ==
    /\ call = NoCall
    /\ \E desired \in DesiredSpecs, actual \in 0..MaxStatus :
        /\ call' = [fn |-> "Matches", desired |-> desired, actual |-> actual]
        /\ result' = IF MatchesPanics(desired, actual)
                     THEN [panic |-> TRUE, value |-> FALSE]
                     ELSE [panic |-> FALSE, value |-> Matches(desired, actual)]
        /\ UNCHANGED parseVars

\* The errors handed to the inspection helpers, by shape: nil, a transport
\* error, a responseError with the given status code, each of the two inside
\* one wrapperError, and a responseError inside two.
ErrorShapes ==
    {"nil", "transport", "response", "wrapped transport", "wrapped response",
     "twice wrapped response"}
MkError(shape, code) ==
    LET re == responseError(code, ContentTypeJSON, "", TRUE, NilVal, NilErr)
    IN CASE shape = "nil" -> NilErr
         [] shape = "transport" -> PlainErr("transport")
         [] shape = "response" -> re
         [] shape = "wrapped transport" -> wrapperError("GET", "/a", PlainErr("transport"))
         [] shape = "wrapped response" -> wrapperError("GET", "/a", re)
         [] shape = "twice wrapped response" ->
              wrapperError("GET", "/a", wrapperError("GET", "/a", re))

\* StatusCode(err), Is4xx(err) and Is5xx(err) are called on one error.
CallStatusCode ==
    /\ call = NoCall
    /\ \E shape \in ErrorShapes, code \in 0..MaxStatus :
        /\ call' = [fn |-> "StatusCode", shape |-> shape, code |-> code]
        /\ result' = [code |-> StatusCode(MkError(shape, code)),
                      is4xx |-> Is4xx(MkError(shape, code)),
                      is5xx |-> Is5xx(MkError(shape, code))]
        /\ UNCHANGED parseVars

\* The options and option lists handed to the factories, and the responses
\* the resulting parser is tried on.
OptionPool ==
    {ContentType(""), ContentType("image/png"), ReturnError,
     StatusOpt(Status4xx5xx), StatusOpt(StatusNotFound)}
OptionLists == UNION { [1..n -> OptionPool] : n \in 0..MaxOptions }
FactoryStatuses == {100, StatusOK, 299, 302, StatusNotFound, 500}

\* The built-in factory of the given kind, called with the options mopt.
Factory(kind, mopt) ==
    CASE kind = "Raw" -> Raw(mopt)
      [] kind = "JSON" -> JSON(mopt)
      [] kind = "Bytes" -> Bytes(mopt)
      [] kind = "PlainText" -> PlainText(mopt)
      [] kind = "None" -> None(mopt)

\* A factory is called with a list of options, and the parser it returns is
\* tried (parse) on one response.
CallMakeParser ==
    /\ call = NoCall
    /\ \E kind \in Kinds, mopt \in OptionLists, status \in FactoryStatuses,
          header \in HeaderValues :
        LET p == Factory(kind, mopt)
            rsp == [StatusCode |-> status, Header |-> header,
                    Body |-> MkBody("{\"foo\": 42}", FALSE)]
            m == parse(rsp, p, InitSlot(kind))
        IN /\ call' = [fn |-> "MakeParser", kind |-> kind, mopt |-> mopt,
                       status |-> status, header |-> header]
           /\ result' = [parser |-> p, panic |-> m.panic, matched |-> m.matched]
           /\ UNCHANGED parseVars

\* The parsers and responses the single-parser match is called on: the
\* caller parsers explored, the three fallbacks, and a parser expecting
\* text/plain from a 2xx response.
PureParsers ==
    ParserPool \cup {fallbackParsers[i] : i \in 1..Len(fallbackParsers)}
               \cup {PlainText(<<ContentType(ContentTypeTextPlain)>>)}
PureResponses ==
    [StatusCode : {99, StatusOK, StatusNotFound, 503},
     Header : HeaderValues,
     Body : {MkBody("{\"foo\": 42}", FALSE), MkBody("<ff>", FALSE)}]

\* parse(resp, p) is called on one response and one parser whose output
\* variable is as the caller initialised it.
CallParse ==
    /\ call = NoCall
    /\ \E rsp \in PureResponses, p \in PureParsers :
        /\ call' = [fn |-> "parse", resp |-> rsp, p |-> p]
        /\ result' = parse(rsp, p, InitSlot(p.kind))
        /\ UNCHANGED parseVars

\* One option is applied to a parser under construction.
CallApplyOption ==
    /\ call = NoCall
    /\ \E o \in OptionPool, p \in PureParsers :
        /\ call' = [fn |-> "applyToParser", o |-> o, p |-> p]
        /\ result' = applyToParser(o, p)
        /\ UNCHANGED parseVars

\* The caller has the result and goes on to its next call.
CallDone ==
    /\ call # NoCall
    /\ call' = NoCall
    /\ result' = NoCall
    /\ UNCHANGED parseVars

PureNext ==
    \/ CallMatches
    \/ CallStatusCode
    \/ CallMakeParser
    \/ CallParse
    \/ CallApplyOption
    \/ CallDone

PureSpec == Init /\ [][PureNext]_vars

\* ------------------------------------------- two concurrent Parse calls

\* Two goroutines call Parse at the same time, each on its own response and
\* with parsers of its own (none, or one JSON parser writing the goroutine's
\* own variable).  call[g] is goroutine g's state: pc ("idle", "fallback",
\* "decoded", "done"), resp, parsers, slot (its own output variable),
\* firstErr, decErr; result[g] is what its Parse returned.  The goroutines
\* share the package-level fallbackParsers and so the variables fbJSONBody
\* and fbTextBody those captured, which they access without synchronisation:
\* each access is a step of its own and the steps interleave freely.
Goroutines == {1, 2}

ConcResponses ==
    [StatusCode : {StatusOK, StatusNotFound},
     Header : {"application/json", "text/plain; charset=utf-8"},
     Body : {MkBody("{\"foo\": 42}", FALSE), MkBody("{\"bar\": 7}", FALSE),
             MkBody("foo", FALSE)}]

ConcParserLists == { <<>>, <<JSON(<<>>)>> }

ConcInit ==
    /\ ProcessInit
    /\ call = [g \in Goroutines |->
                 [pc |-> "idle", resp |-> NoResponse, parsers |-> <<>>,
                  slot |-> NilVal, firstErr |-> NilErr, decErr |-> NilErr]]
    /\ result = [g \in Goroutines |-> NilErr]

\* The variables of the sequential model that the goroutines do not use.
seqVars ==
    <<pc, entry, req, resp, parsers, idx, firstErr, slots, bodyRead, bodyClosed,
      tried, invoked, parseRet, ret>>

\* The first loop of Parse over ps from index k on, with firstErr = first
\* and the (single) output variable holding slot: it touches nothing shared.
RECURSIVE callerLoop(_, _, _, _, _)
callerLoop(rsp, ps, k, first, slot) ==
    IF k > Len(ps)
    THEN [matched |-> FALSE, err |-> NilErr, firstErr |-> first, slot |-> slot]
    ELSE LET m == parse(rsp, ps[k], slot)
         IN IF m.matched
            THEN [matched |-> TRUE, err |-> m.err, firstErr |-> first, slot |-> m.slot]
            ELSE callerLoop(rsp, ps, k + 1, rememberFirst(first, m.err), m.slot)

\* Goroutine g calls Parse(rsp, ps...) and runs the first loop.
GoParse(g) ==
    /\ call[g].pc = "idle"
    /\ \E rsp \in ConcResponses, ps \in ConcParserLists :
         LET c == callerLoop(rsp, ps, 1, NilErr, NilVal)
         IN /\ call' = [call EXCEPT ![g] =
                           [pc |-> IF c.matched THEN "done" ELSE "fallback",
                            resp |-> rsp, parsers |-> ps, slot |-> c.slot,
                            firstErr |-> c.firstErr, decErr |-> NilErr]]
            /\ result' = [result EXCEPT ![g] = c.err]
    /\ UNCHANGED <<fbJSONBody, fbTextBody>>
    /\ UNCHANGED seqVars

\* The index of the first fallback parser that matches rsp.
firstFallback(rsp) ==
    CHOOSE i \in 1..Len(fallbackParsers) :
        /\ parse(rsp, fallbackParsers[i], NilVal).matched
        /\ \A j \in 1..(i - 1) : ~parse(rsp, fallbackParsers[j], NilVal).matched

\* Goroutine g runs the second loop up to the parser that matches.  When
\* that is fallbackParsers[0], its decoder's Decode(result) writes the shared
\* variable and the goroutine has yet to read it back; fallbackParsers[1]
\* writes its shared variable and returns the local string.
GoFallback(g) ==
    /\ call[g].pc = "fallback"
    /\ LET c == call[g]
           i == firstFallback(c.resp)
       IN IF i = 1
          THEN LET d == JSONDecode(c.resp.Body, fbJSONBody)
               IN /\ fbJSONBody' = d.val
                  /\ call' = [call EXCEPT ![g].pc = "decoded", ![g].decErr = d.err]
                  /\ UNCHANGED <<fbTextBody, result>>
          ELSE LET m == parse(c.resp, fallbackParsers[i], fallbackSlot(i))
               IN /\ fbTextBody' = IF i = 2 THEN m.slot ELSE fbTextBody
                  /\ call' = [call EXCEPT ![g].pc = "done"]
                  /\ result' = [result EXCEPT ![g] = fallbackResult(i, m.err, c.firstErr)]
                  /\ UNCHANGED fbJSONBody
    /\ UNCHANGED seqVars

\* Goroutine g, in the decoder of fallbackParsers[0] after Decode, reads
\* the shared variable (body := reflect.ValueOf(result).Elem().Interface());
\* parse builds the forced error from it and Parse returns it.
GoReadBody(g) ==
    /\ call[g].pc = "decoded"
    /\ LET c == call[g]
           p == fallbackParsers[1]
           mt == ParseMediaType(c.resp.Header)
       IN result' = [result EXCEPT ![g] =
                        fallbackResult(1, responseError(c.resp.StatusCode, mt.ctype, p.ctype,
                                                        TRUE, fbJSONBody, c.decErr),
                                       c.firstErr)]
    /\ call' = [call EXCEPT ![g].pc = "done"]
    /\ UNCHANGED <<fbJSONBody, fbTextBody>>
    /\ UNCHANGED seqVars

ConcNext == \E g \in Goroutines : GoParse(g) \/ GoFallback(g) \/ GoReadBody(g)

ConcSpec == ConcInit /\ [][ConcNext]_vars

\* ------------------------------------ the same parser, constructed twice

\* A caller builds a parser twice with the same factory and the same
\* options, each time around a fresh output variable, and calls Parse with
\* the first and later Parse with the second on two equal responses;
\* between the two the process may make other Parse calls.  call holds the
\* step (fn), the factory (kind), the options (mopt), the response, the two
\* parsers and whether another call was made in between; result holds, for
\* each of the two calls, the error returned and the output variable
\* afterwards.
TwiceOptionLists ==
    { <<>>, <<StatusOpt(Status4xx5xx)>>, <<ContentType(""), ReturnError>>,
      <<StatusOpt(StatusNotFound)>> }

TwiceResponses ==
    [StatusCode : {StatusOK, StatusNotFound}, Header : HeaderValues, Body : Bodies]

\* The responses of the calls made in between: error responses, which the
\* built-in fallbacks decode.
BetweenResponses ==
    [StatusCode : {StatusNotFound},
     Header : {"application/json"},
     Body : {MkBody("{\"foo\": 42}", FALSE), MkBody("{\"bar\": 7}", FALSE)}]

\* The second loop of Parse once caller loop c is over without a match and
\* fallback parser i has given m: the error returned, the caller's output
\* variable and the fallback variables afterwards.
seqFallbackOutcome(i, m, c, fbJ, fbT) ==
    [err |-> fallbackResult(i, m.err, c.firstErr), slot |-> c.slot,
     fbJ |-> IF i = 1 THEN m.slot ELSE fbJ,
     fbT |-> IF i = 2 THEN m.slot ELSE fbT]

seqFallback(rsp, i, c, fbJ, fbT) ==
    seqFallbackOutcome(i, parse(rsp, fallbackParsers[i],
                                CASE i = 1 -> fbJ [] i = 2 -> fbT [] OTHER -> NilVal),
                       c, fbJ, fbT)

\* Parse after its first loop gave c: the match of a caller parser is
\* returned; otherwise the fallbacks are tried, none of which matches when
\* the Content-Type does not parse.
seqAfterCallers(rsp, c, fbJ, fbT) ==
    IF c.matched
    THEN [err |-> c.err, slot |-> c.slot, fbJ |-> fbJ, fbT |-> fbT]
    ELSE IF ~ParseMediaType(rsp.Header).ok
    THEN [err |-> NilErr, slot |-> c.slot, fbJ |-> fbJ, fbT |-> fbT]
    ELSE seqFallback(rsp, firstFallback(rsp), c, fbJ, fbT)

\* Parse(rsp, ps...) as a whole, for a list ps of at most one parser and a
\* status on which Matches does not panic, in a process whose fallback
\* variables hold fbJ and fbT: the error returned, the caller's output
\* variable and the fallback variables afterwards.
seqParse(rsp, ps, fbJ, fbT) ==
    seqAfterCallers(rsp,
                    callerLoop(rsp, ps, 1, NilErr,
                               IF ps = <<>> THEN NilVal ELSE InitSlot(ps[1].kind)),
                    fbJ, fbT)

\* The factory is called twice with the same options.
BuildTwice ==
    /\ call = NoCall
    /\ \E kind \in Kinds, mopt \in TwiceOptionLists, rsp \in TwiceResponses :
         call' = [fn |-> "built", kind |-> kind, mopt |-> mopt, resp |-> rsp,
                  first |-> Factory(kind, mopt), second |-> Factory(kind, mopt),
                  between |-> FALSE]
    /\ result' = [first |-> NoCall, second |-> NoCall]
    /\ UNCHANGED parseVars

\* A Parse call with outcome o has left the fallback variables as o says.
fallbackVarsAfter(o) ==
    /\ fbJSONBody' = o.fbJ
    /\ fbTextBody' = o.fbT

\* The outcome o of the call with the first (second) parser is recorded.
firstOutcome(o) ==
    /\ result' = [result EXCEPT !.first = [err |-> o.err, slot |-> o.slot]]
    /\ fallbackVarsAfter(o)
secondOutcome(o) ==
    /\ result' = [result EXCEPT !.second = [err |-> o.err, slot |-> o.slot]]
    /\ fallbackVarsAfter(o)

\* Parse(resp, first)
ParseWithFirst ==
    /\ call # NoCall /\ call.fn = "built"
    /\ firstOutcome(seqParse(call.resp, <<call.first>>, fbJSONBody, fbTextBody))
    /\ call' = [call EXCEPT !.fn = "first"]
    /\ UNCHANGED seqVars

\* Between the two, the process calls Parse(rsp) on some other response
\* with no parsers.
ParseBetween ==
    /\ call # NoCall /\ call.fn = "first"
    /\ \E rsp \in BetweenResponses :
         fallbackVarsAfter(seqParse(rsp, <<>>, fbJSONBody, fbTextBody))
    /\ call' = [call EXCEPT !.between = TRUE]
    /\ UNCHANGED result
    /\ UNCHANGED seqVars

\* Parse(resp, second), on a response equal to the first.
ParseWithSecond ==
    /\ call # NoCall /\ call.fn = "first"
    /\ secondOutcome(seqParse(call.resp, <<call.second>>, fbJSONBody, fbTextBody))
    /\ call' = [call EXCEPT !.fn = "second"]
    /\ UNCHANGED seqVars

\* The caller goes on; the fallback variables stay as the calls left them.
TwiceDone ==
    /\ call # NoCall /\ call.fn = "second"
    /\ call' = NoCall
    /\ result' = NoCall
    /\ UNCHANGED parseVars

TwiceNext ==
    \/ BuildTwice
    \/ ParseWithFirst
    \/ ParseBetween
    \/ ParseWithSecond
    \/ TwiceDone

TwiceSpec == Init /\ [][TwiceNext]_vars

\* ------------------------------------------------- Parse runs to its end

\* Parse calls on a smaller set of responses, for the properties of whole
\* behaviours: a call that has started goes on, one loop iteration after
\* the other, for as long as it can (the goroutine running it keeps being
\* scheduled, and a decoder that is invoked returns).
LiveResponses ==
    [StatusCode : {99, StatusOK, StatusNotFound},
     Header : {"application/json", ""},
     Body : {MkBody("{\"foo\": 42}", FALSE), MkBody("foo", FALSE)}]

LiveParseCall ==
    /\ pc = "idle"
    /\ \E rsp \in LiveResponses, ps \in ParserLists :
         EnterParse("Parse", NoRequest, rsp, ps)

LiveNext ==
    \/ LiveParseCall
    \/ ParsersLoop
    \/ FallbackLoop
    \/ ParseReturnNil
    \/ NextCall

LiveSpec ==
    /\ Init
    /\ [][LiveNext]_vars
    /\ WF_vars(ParsersLoop)
    /\ WF_vars(FallbackLoop)
    /\ WF_vars(ParseReturnNil)

\* ------------------------------------------- package httpsimplified (v1)

\* The first version of the package: a Parser is a function of the response
\* and a result pointer that verifies the response (verify) and handles the
\* body.  The operators below carry the prefix V1 where the second version
\* has a function of the same name.

\* &StatusError{StatusCode, ContentType, Body, DecodingError}
StatusError(code, ctype, body, decErr) ==
    [type |-> "StatusError", StatusCode |-> code, ContentType |-> ctype,
     Body |-> body, DecodingError |-> decErr]

\* &ContentTypeError{StatusCode, ContentType, ExpectedContentType}
ContentTypeError(code, ctype, expected) ==
    [type |-> "ContentTypeError", StatusCode |-> code, ContentType |-> ctype,
     ExpectedContentType |-> expected]

\* Response bodies handed to the v1 parsers: [content, readErr, strict].
\* strict says what the stream does when it is read after Close: the body
\* of a response made by net/http fails the read (strict), while a body
\* whose Close does nothing, such as ioutil.NopCloser over a buffer, goes
\* on delivering its data.
V1Body(c, e, strict) == [content |-> c, readErr |-> e, strict |-> strict]
V1Bodies ==
    { V1Body("{\"foo\": 42}", FALSE, TRUE), V1Body("{\"foo\": 42}", FALSE, FALSE),
      V1Body("foo", FALSE, TRUE), V1Body("{\"foo\"", TRUE, TRUE) }
V1Statuses == {199, StatusOK, 299, 300, StatusNotFound}
V1Responses == [StatusCode : V1Statuses, Header : HeaderValues, Body : V1Bodies]

\* json.NewDecoder(resp.Body).Decode(&x) on a body that was closed before
\* (closed) or not.
V1Decode(body, old, closed) ==
    IF closed /\ body.strict
    THEN [val |-> old, err |-> PlainErr("http: read on closed response body")]
    ELSE JSONDecode(body, old)

\* Variant of verify: the content type is checked before the status.
verifyContentTypeFirst(rsp, expectedCType, closed) ==
    LET mt == ParseMediaType(rsp.Header)
    IN IF ~mt.ok THEN PlainErr("cannot parse Content-Type string")
       ELSE IF expectedCType # "" /\ mt.ctype # expectedCType
       THEN ContentTypeError(rsp.StatusCode, mt.ctype, expectedCType)
       ELSE IF rsp.StatusCode < 200 \/ rsp.StatusCode >= 300
       THEN IF mt.ctype = ContentTypeJSON
            THEN LET d == V1Decode(rsp.Body, NilVal, closed)
                 IN IF d.err = NilErr
                    THEN StatusError(rsp.StatusCode, mt.ctype, d.val, NilErr)
                    ELSE StatusError(rsp.StatusCode, mt.ctype, NilVal, d.err)
            ELSE StatusError(rsp.StatusCode, mt.ctype, NilVal, NilErr)
       ELSE NilErr

\* verify(resp, expectedCType), called on a body that is closed or not: the
\* error returned.
verify(rsp, expectedCType, closed) ==
    LET mt == ParseMediaType(rsp.Header)
    IN IF ~mt.ok THEN PlainErr("cannot parse Content-Type string")
       ELSE IF rsp.StatusCode < 200 \/ rsp.StatusCode >= 300
       THEN IF mt.ctype = ContentTypeJSON
            THEN LET d == V1Decode(rsp.Body, NilVal, closed)
                 IN IF d.err = NilErr
                    THEN StatusError(rsp.StatusCode, mt.ctype, d.val, NilErr)
                    ELSE StatusError(rsp.StatusCode, mt.ctype, NilVal, d.err)
            ELSE StatusError(rsp.StatusCode, mt.ctype, NilVal, NilErr)
       ELSE IF expectedCType # "" /\ mt.ctype # expectedCType
       THEN ContentTypeError(rsp.StatusCode, mt.ctype, expectedCType)
       ELSE NilErr

\* verify reads the body (decodes it) exactly for a response with a
\* parseable Content-Type, a status outside [200,299] and media type JSON.
verifyReads(rsp) ==
    LET mt == ParseMediaType(rsp.Header)
    IN /\ mt.ok
       /\ (rsp.StatusCode < 200 \/ rsp.StatusCode >= 300)
       /\ mt.ctype = ContentTypeJSON

\* The v1 parsers, called on resp with the result variable holding slot:
\* the error returned, the result variable afterwards, whether the body is
\* closed on return and whether it was read after it had been closed.
V1Raw(rsp, slot) ==
    LET err == verify(rsp, "", FALSE)
    IN IF err # NilErr
       THEN [err |-> err, slot |-> slot, closed |-> TRUE, readAfterClose |-> FALSE]
       ELSE [err |-> NilErr, slot |-> ResponseVal, closed |-> FALSE,
             readAfterClose |-> FALSE]

V1JSON(rsp, slot) ==
    LET err == verify(rsp, ContentTypeJSON, FALSE)
    IN IF err # NilErr
       THEN [err |-> err, slot |-> slot, closed |-> TRUE, readAfterClose |-> FALSE]
       ELSE LET d == V1Decode(rsp.Body, slot, FALSE)
            IN [err |-> IF d.err # NilErr THEN PlainErr("error decoding JSON") ELSE NilErr,
                slot |-> d.val, closed |-> TRUE, readAfterClose |-> FALSE]

V1Bytes(rsp, slot) ==
    LET err == verify(rsp, "", FALSE)
    IN IF err # NilErr
       THEN [err |-> err, slot |-> slot, closed |-> TRUE, readAfterClose |-> FALSE]
       ELSE LET r == ReadAll(rsp.Body)
            IN IF r.err # NilErr
               THEN [err |-> PlainErr("error reading body"), slot |-> slot,
                     closed |-> TRUE, readAfterClose |-> FALSE]
               ELSE [err |-> NilErr, slot |-> BytesVal(r.b), closed |-> TRUE,
                     readAfterClose |-> FALSE]

V1None(rsp, slot) ==
    [err |-> verify(rsp, "", TRUE), slot |-> slot, closed |-> TRUE,
     readAfterClose |-> verifyReads(rsp)]

V1Parsers == {"Raw", "JSON", "Bytes", "None"}
V1Parser(name, rsp, slot) ==
    CASE name = "Raw" -> V1Raw(rsp, slot)
      [] name = "JSON" -> V1JSON(rsp, slot)
      [] name = "Bytes" -> V1Bytes(rsp, slot)
      [] name = "None" -> V1None(rsp, slot)

\* One of the v1 parsers is called on a response, with a result variable
\* that holds nil.
CallV1Parser ==
    /\ call = NoCall
    /\ \E name \in V1Parsers, rsp \in V1Responses :
        /\ call' = [fn |-> "parser", parser |-> name, resp |-> rsp]
        /\ result' = V1Parser(name, rsp, NilVal)
        /\ UNCHANGED parseVars

\* verify is called on a response whose body is open.
CallVerify ==
    /\ call = NoCall
    /\ \E rsp \in V1Responses, expected \in {"", ContentTypeJSON, ContentTypeTextPlain} :
        /\ call' = [fn |-> "verify", resp |-> rsp, expected |-> expected]
        /\ result' = verify(rsp, expected, FALSE)
        /\ UNCHANGED parseVars

V1Next ==
    \/ CallV1Parser
    \/ CallVerify
    \/ CallDone

V1Spec == Init /\ [][V1Next]_vars

\* ------------------------------------------------------------ properties

\* A Parse call is running or has ended (the client produced a response).
InParse == resp # NoResponse

\* p's content-type and status predicates both accept rsp.
Accepts(rsp, p) ==
    LET mt == ParseMediaType(rsp.Header)
    IN /\ mt.ok
       /\ (p.ctype = "" \/ p.ctype = mt.ctype)
       /\ ~MatchesPanics(p.statusSpec, rsp.StatusCode)
       /\ Matches(p.statusSpec, rsp.StatusCode)

\* Caller parser k is the first of the list that accepts the response.
FirstAccepting(k) ==
    /\ k \in 1..Len(parsers)
    /\ Accepts(resp, parsers[k])
    /\ \A j \in 1..(k - 1) : ~Accepts(resp, parsers[j])

NoCallerAccepts == \A k \in 1..Len(parsers) : ~Accepts(resp, parsers[k])

\* The parser at position x of the history variables.
ParserAt(x) == IF x.list = "parsers" THEN parsers[x.i] ELSE fallbackParsers[x.i]

\* C1: caller parsers are tried in list order, and when caller parser k is
\* the first that accepts the response, nothing after it (no later caller
\* parser, no fallback) is tried or decoded, and Parse returns the outcome of
\* parser k (nil or its error).
C1_FirstMatchWins ==
    /\ \A j \in 1..Len(tried) :
          tried[j] = IF j <= Len(parsers) THEN Caller(j) ELSE Fallback(j - Len(parsers))
    /\ \A k \in 1..Len(parsers) :
          FirstAccepting(k) =>
             /\ Len(tried) <= k
             /\ \A j \in 1..Len(invoked) : invoked[j] = Caller(k)
             /\ pc = "returned" =>
                   /\ Len(tried) = k
                   /\ invoked = <<Caller(k)>>
                   /\ parseRet = parse(resp, parsers[k], InitSlot(parsers[k].kind)).err

\* Witness of C1: Parse returned after its first parser matched, with a second
\* parser of another kind that accepts the same response left untried.
C1_Witness ==
    /\ pc = "returned"
    /\ Len(parsers) = 2
    /\ FirstAccepting(1)
    /\ Accepts(resp, parsers[2])
    /\ parsers[1].kind # parsers[2].kind
    /\ tried = <<Caller(1)>>

\* The parser the running loop is about to hand to parse.
AtParser ==
    \/ pc = "parsers" /\ idx <= Len(parsers)
    \/ pc = "fallback" /\ idx <= Len(fallbackParsers)
CurrentParser == IF pc = "parsers" THEN parsers[idx] ELSE fallbackParsers[idx]

\* C2: in one Parse call at most one decoder is invoked, and a step that tries
\* a parser whose predicates reject the response leaves the response body
\* unread and unclosed, leaves every output variable as it was, and invokes
\* no decoder.
C2_SingleConsumer ==
    [][ /\ (pc' # "idle" => Len(invoked') <= 1)
        /\ (AtParser /\ ~Accepts(resp, CurrentParser)) =>
              /\ bodyRead' = bodyRead
              /\ bodyClosed' = bodyClosed
              /\ slots' = slots
              /\ fbJSONBody' = fbJSONBody
              /\ fbTextBody' = fbTextBody
              /\ invoked' = invoked ]_vars

\* Witness of C2: a call in which two caller parsers and two fallbacks were
\* rejected before one parser decoded and closed the body.
C2_Witness ==
    /\ pc = "returned"
    /\ Len(tried) = 5
    /\ Len(invoked) = 1
    /\ bodyClosed

\* The parser whose decoder ran in this call, when there is one.
Matched == Len(invoked) = 1
MatchedParser == ParserAt(invoked[1])

\* C3: when Parse has returned, the response body is closed, unless the
\* parser that matched is a Raw parser.
C3_BodyClosedOnReturn ==
    (pc = "returned" /\ InParse) =>
        \/ bodyClosed
        \/ Matched /\ MatchedParser.kind = "Raw"

\* C4: when no caller parser accepts the response (the list may be empty),
\* Parse returns a non-nil error.
C4_NoMatchIsError ==
    (pc = "returned" /\ InParse /\ NoCallerAccepts) => parseRet # NilErr

\* C5: when the parser that matched carries ReturnError, Parse and the entry
\* function return a non-nil error.
C5_ReturnErrorForcesError ==
    (pc = "returned" /\ Matched /\ MatchedParser.retErr) =>
        (parseRet # NilErr /\ ret # NilErr)

\* C6: when caller parser k is the one that matches, its decoder ran exactly
\* once; Parse returns nil iff the parser has no ReturnError and the decoder
\* reported no error, whatever the status class; otherwise Parse returns a
\* responseError with ContentTypeOK = TRUE carrying the decoder's value and
\* the decoder's error.
C6_MatchedCallerOutcome ==
    \A k \in 1..Len(parsers) :
        (pc = "returned" /\ FirstAccepting(k)) =>
            LET p == parsers[k]
                d == parseBody(p.kind, resp, InitSlot(p.kind))
                mt == ParseMediaType(resp.Header)
            IN /\ invoked = <<Caller(k)>>
               /\ slots[k] = d.slot
               /\ (parseRet = NilErr) <=> (~p.retErr /\ d.err = NilErr)
               /\ parseRet # NilErr =>
                     parseRet = responseError(resp.StatusCode, mt.ctype, p.ctype,
                                              TRUE, d.body, d.err)

\* Witness of C6: JSON(&e, Status4xx5xx) matched a 404 and Parse returned nil.
C6_Witness ==
    /\ pc = "returned"
    /\ resp.StatusCode = StatusNotFound
    /\ \E k \in 1..Len(parsers) :
          /\ FirstAccepting(k)
          /\ parsers[k] = JSON(<<StatusOpt(Status4xx5xx)>>)
          /\ invoked = <<Caller(k)>>
          /\ slots[k] = JSONVal("map[foo:42]")
    /\ parseRet = NilErr

\* C7: when caller parsers were tried, none matched, and the catch-all (the
\* last fallback) is the parser that matched, Parse returns the mismatch
\* diagnostic of the first caller parser.
C7_FirstDiagnostic ==
    (pc = "returned" /\ Len(parsers) >= 1
       /\ invoked = <<Fallback(Len(fallbackParsers))>>) =>
        LET p == parsers[1]
            mt == ParseMediaType(resp.Header)
        IN parseRet = responseError(resp.StatusCode, mt.ctype, p.ctype,
                                    (p.ctype = "" \/ p.ctype = mt.ctype), NilVal, NilErr)

\* Witness of C7: status 200, text/plain, a JSON parser first and a second
\* parser with another diagnostic; the error says "wanted application/json".
C7_Witness ==
    /\ pc = "returned"
    /\ Len(parsers) = 2
    /\ parsers[1] = JSON(<<>>)
    /\ parsers[2].ctype # parsers[1].ctype
    /\ resp.StatusCode = StatusOK
    /\ ParseMediaType(resp.Header).ctype = ContentTypeTextPlain
    /\ invoked = <<Fallback(Len(fallbackParsers))>>
    /\ parseRet = responseError(StatusOK, ContentTypeTextPlain, ContentTypeJSON,
                                FALSE, NilVal, NilErr)

\* C8: with an empty parser list, when the catch-all is the parser that
\* matched, Parse returns the catch-all's own forced error: a responseError
\* with the response's status code.
C8_EmptyListCatchAll ==
    (pc = "returned" /\ InParse /\ parsers = <<>>
       /\ invoked = <<Fallback(Len(fallbackParsers))>>) =>
        parseRet = responseError(resp.StatusCode, ParseMediaType(resp.Header).ctype,
                                 "", TRUE, NilVal, NilErr)

\* C9: when no caller parser accepts a 4xx/5xx response of type
\* application/json (text/plain), fallback 1 (fallback 2) is the parser that
\* matches and Parse returns its own forced error, with the decoded body when
\* decoding succeeded; it is not replaced by firstErr.
C9_FallbackOwnError ==
    LET mt == ParseMediaType(resp.Header)
    IN (pc = "returned" /\ InParse /\ NoCallerAccepts
          /\ resp.StatusCode >= 400 /\ resp.StatusCode <= 599
          /\ mt.ok /\ mt.ctype \in {ContentTypeJSON, ContentTypeTextPlain}) =>
         /\ invoked = <<Fallback(IF mt.ctype = ContentTypeJSON THEN 1 ELSE 2)>>
         /\ parseRet.type = "responseError"
         /\ parseRet.StatusCode = resp.StatusCode
         /\ parseRet.ContentType = mt.ctype
         /\ parseRet.WantedContentType = mt.ctype
         /\ parseRet.ContentTypeOK
         /\ parseRet # firstErr
         /\ IF mt.ctype = ContentTypeJSON
            THEN LET d == JSONDecode(resp.Body, NilVal)
                 IN /\ parseRet.DecodingError = d.err
                    /\ d.err = NilErr => parseRet.Body = d.val
            ELSE LET d == parseBody("PlainText", resp, StringVal(""))
                 IN /\ parseRet.DecodingError = d.err
                    /\ parseRet.Body = d.body

\* Witness of C9: a 4xx/5xx application/json response, a caller parser that
\* recorded firstErr, and the error of fallback 1 with the decoded body.
C9_Witness ==
    /\ pc = "returned"
    /\ Len(parsers) >= 1
    /\ firstErr # NilErr
    /\ invoked = <<Fallback(1)>>
    /\ parseRet.type = "responseError"
    /\ parseRet.Body = JSONVal("map[foo:42]")

\* C10: Parse never runs past the end of the fallback chain, and never
\* returns without some parser having matched.
C10_SomeFallbackMatches ==
    /\ ~(pc = "fallback" /\ idx > Len(fallbackParsers))
    /\ (pc = "returned" /\ InParse) => Matched

\* The documented meaning of a StatusSpec for a valid actual status.
Documented(desired, actual) ==
    CASE desired = StatusNone -> FALSE
      [] desired = StatusAny -> TRUE
      [] desired = Status4xx5xx -> actual \div 100 \in {4, 5}
      [] desired \in SpecialSpecs -> actual \div 100 = (0 - desired) \div 100
      [] OTHER -> actual = desired

\* C11: for an actual status in [100,599], Matches returns the documented
\* membership: never for StatusNone, always for StatusAny, the hundred band
\* for Status1xx..Status5xx, 400..599 for Status4xx5xx, equality for an
\* exact status in [100,599].
C11_MatchesMembership ==
    (call.fn = "Matches" /\ call.actual >= 100 /\ call.actual <= 599
       /\ (call.desired \in SpecialSpecs \/ call.desired \in 100..599)) =>
        /\ ~result.panic
        /\ result.value = Documented(call.desired, call.actual)

\* Witness of C11: Status4xx5xx matched 599.
C11_Witness ==
    /\ call.fn = "Matches"
    /\ call.desired = Status4xx5xx
    /\ call.actual = 599
    /\ result = [panic |-> FALSE, value |-> TRUE]

\* C12: Matches panics exactly when the actual status is outside [100,599]
\* (whatever the desired value, StatusNone and StatusAny included) or the
\* desired value is no special constant and lies outside [100,599].
C12_MatchesFailsFast ==
    call.fn = "Matches" =>
        (result.panic <=>
            \/ call.actual \notin 100..599
            \/ (call.desired \notin SpecialSpecs /\ call.desired \notin 100..599))

\* Witness of C12: StatusAny panicked on the actual status 600.
C12_Witness ==
    /\ call.fn = "Matches"
    /\ call.desired = StatusAny
    /\ call.actual = 600
    /\ result.panic

\* C13: Do returns nil iff the client produced a response and Parse returned
\* nil; on a transport failure it returns a wrapperError with the request's
\* method and path around the transport error and no parser is tried; when
\* Parse returns an error it returns a wrapperError with the request's
\* method and path whose Cause is that error.
C13_DoWraps ==
    (pc = "returned" /\ entry = "Do") =>
        /\ (ret = NilErr) <=> (InParse /\ parseRet = NilErr)
        /\ ~InParse =>
              /\ ret = wrapperError(req.Method, req.Path, PlainErr("transport"))
              /\ tried = <<>>
              /\ invoked = <<>>
              /\ ~bodyRead /\ ~bodyClosed
        /\ (InParse /\ parseRet # NilErr) =>
              ret = wrapperError(req.Method, req.Path, parseRet)

\* Witness of C13: Do returned a PUT request's wrapperError around the
\* responseError of Parse.
C13_Witness ==
    /\ pc = "returned"
    /\ entry = "Do"
    /\ req.Method = "PUT"
    /\ InParse
    /\ parseRet.type = "responseError"
    /\ ret = wrapperError("PUT", req.Path, parseRet)

\* C14: StatusCode is the status code of a responseError, direct or inside
\* one wrapperError, and 0 for any other error; Is4xx holds iff that code is
\* in [400,499], Is5xx iff it is in [500,599]; never both.
C14_StatusHelpers ==
    call.fn = "StatusCode" =>
        /\ result.code = IF call.shape \in {"response", "wrapped response"}
                         THEN call.code ELSE 0
        /\ result.is4xx <=> (result.code >= 400 /\ result.code <= 499)
        /\ result.is5xx <=> (result.code >= 500 /\ result.code <= 599)
        /\ ~(result.is4xx /\ result.is5xx)
        /\ call.shape \in {"nil", "transport", "wrapped transport"} =>
              (~result.is4xx /\ ~result.is5xx)

\* Witness of C14: a wrapped responseError with status 503 is a 5xx.
C14_Witness ==
    /\ call.fn = "StatusCode"
    /\ call.shape = "wrapped response"
    /\ call.code = 503
    /\ result = [code |-> 503, is4xx |-> FALSE, is5xx |-> TRUE]

\* C15: every non-nil error returned by Parse is a responseError with the
\* response's status code, so StatusCode of what the entry function (Do or
\* Parse) returned is the response's status code.
C15_ErrorCarriesStatus ==
    (pc = "returned" /\ InParse /\ parseRet # NilErr) =>
        /\ parseRet.type = "responseError"
        /\ parseRet.StatusCode = resp.StatusCode
        /\ StatusCode(ret) = resp.StatusCode

\* Witness of C15: Do returned the wrapped mismatch diagnostic of a caller
\* parser for a 404, and StatusCode gives 404.
C15_Witness ==
    /\ pc = "returned"
    /\ entry = "Do"
    /\ firstErr # NilErr
    /\ parseRet = firstErr
    /\ ret.type = "wrapperError"
    /\ resp.StatusCode = StatusNotFound
    /\ StatusCode(ret) = StatusNotFound

\* What Parse returns in a process whose package-level variables are as
\* initialised, given which parser matched in the call at hand.
FreshFallbackSlot(i) == IF i = 2 THEN StringVal("") ELSE NilVal
FreshParseResult ==
    IF ~Matched THEN NilErr
    ELSE LET i == invoked[1].i
         IN IF invoked[1].list = "parsers"
            THEN parse(resp, parsers[i], InitSlot(parsers[i].kind)).err
            ELSE fallbackResult(i, parse(resp, fallbackParsers[i], FreshFallbackSlot(i)).err,
                                firstErr)

\* C16: what Parse returns depends on its response and parser list only,
\* not on earlier Parse calls of the process: it is what the same call
\* returns in a fresh process.
C16_HistoryIndependent ==
    (pc = "returned" /\ InParse) => parseRet = FreshParseResult

\* What a Parse call running alone in a fresh process returns for rsp and ps
\* (for the responses of ConcResponses, on which Matches does not panic).
LoneResult(rsp, ps) ==
    LET c == callerLoop(rsp, ps, 1, NilErr, NilVal)
    IN IF c.matched THEN c.err
       ELSE LET i == firstFallback(rsp)
            IN fallbackResult(i, parse(rsp, fallbackParsers[i], FreshFallbackSlot(i)).err,
                              c.firstErr)

\* C17: two concurrent Parse calls on different responses do not interfere:
\* whatever the interleaving, each returns what it returns when it runs
\* alone.
C17_NoInterference ==
    \A g \in Goroutines :
        (call[g].pc = "done" /\ (\A h \in Goroutines : call[h].pc # "idle")) =>
            result[g] = LoneResult(call[g].resp, call[g].parsers)

\* The default content type of each built-in factory.
DefaultContentType(kind) == IF kind = "JSON" THEN ContentTypeJSON ELSE ""

\* The media type of the response a factory's parser was tried on.
CallMediaType == ParseMediaType(call.header)

\* C18: a parser built without options has the factory's default content
\* type, the status predicate Status2xx and no forced error; it matches
\* exactly the 2xx responses whose media type is the default content type
\* (any media type for an empty default), so never a 1xx, 3xx, 4xx or 5xx.
C18_DefaultParser ==
    (call # NoCall /\ call.fn = "MakeParser" /\ call.mopt = <<>>) =>
        /\ result.parser.ctype = DefaultContentType(call.kind)
        /\ result.parser.statusSpec = Status2xx
        /\ ~result.parser.retErr
        /\ ~result.panic
        /\ result.matched <=>
              /\ call.status \in 200..299
              /\ CallMediaType.ok
              /\ \/ DefaultContentType(call.kind) = ""
                 \/ CallMediaType.ctype = DefaultContentType(call.kind)

\* A default parser matched a 2xx response of its content type.
C18_Witness ==
    /\ call # NoCall /\ call.fn = "MakeParser" /\ call.mopt = <<>>
    /\ call.kind = "JSON" /\ call.status = 299
    /\ result.matched

\* The index in mopt of the last option of the given type, 0 if none.
LastOption(mopt, opt) ==
    LET I == {i \in 1..Len(mopt) : mopt[i].opt = opt}
    IN IF I = {} THEN 0 ELSE CHOOSE i \in I : \A j \in I : j <= i

\* C19: options apply in order, the last one of a field winning: the
\* parser's content type (status predicate) is that of the last ContentType
\* (StatusSpec) option, or the default without one; after a last
\* ContentType("") the parser matches any content type.
C19_LastWriteWins ==
    (call # NoCall /\ call.fn = "MakeParser") =>
        LET lc == LastOption(call.mopt, "ContentType")
            ls == LastOption(call.mopt, "StatusSpec")
        IN /\ result.parser.ctype =
                IF lc = 0 THEN DefaultContentType(call.kind) ELSE call.mopt[lc].ctype
           /\ result.parser.statusSpec =
                IF ls = 0 THEN Status2xx ELSE call.mopt[ls].spec
           /\ (lc # 0 /\ call.mopt[lc].ctype = "" /\ ~result.panic) =>
                (result.matched <=>
                    /\ CallMediaType.ok
                    /\ Matches(result.parser.statusSpec, call.status))

\* Two ContentType options that differ were given: the later one won, and
\* the parser, reset to any content type, matched a response of another
\* type than the factory's default.
C19_Witness ==
    /\ call # NoCall /\ call.fn = "MakeParser" /\ call.kind = "JSON"
    /\ Len(call.mopt) >= 2
    /\ call.mopt[1] = ContentType("image/png")
    /\ call.mopt[Len(call.mopt)] = ContentType("")
    /\ result.parser.ctype = ""
    /\ call.header = "image/png"
    /\ result.matched

\* C20: once the decoder of a JSON, Bytes, PlainText or None parser has
\* returned, the response body is closed, whether decoding succeeded or
\* failed.
C20_DecoderClosesBody ==
    (Matched /\ MatchedParser.kind # "Raw") => bodyClosed

\* A PlainText decoder failed on a body that is not valid UTF-8 and the
\* body is closed.
C20_Witness ==
    /\ Matched
    /\ MatchedParser.kind = "PlainText"
    /\ parseRet.type = "responseError"
    /\ parseRet.DecodingError = PlainErr("invalid utf-8 sequence encountered")
    /\ bodyClosed

\* C21: when a caller's PlainText parser matched, a body that is not valid
\* UTF-8 gives a structured error with DecodingError set, leaves the
\* caller's string as it was and the body closed; a valid body is stored
\* whole, as a string, in the caller's variable.
C21_PlainTextDecoding ==
    (pc = "returned" /\ Matched /\ invoked[1].list = "parsers"
       /\ MatchedParser.kind = "PlainText") =>
        LET i == invoked[1].i
        IN IF resp.Body.content = "<ff>"
           THEN /\ parseRet.type = "responseError"
                /\ parseRet.DecodingError = PlainErr("invalid utf-8 sequence encountered")
                /\ slots[i] = InitSlot("PlainText")
                /\ bodyClosed
           ELSE slots[i] = StringVal(resp.Body.content)

\* The second parser of the list, a PlainText parser, matched a body that
\* is not valid UTF-8: Parse returned the decode error and the string is
\* as before.
C21_Witness ==
    /\ pc = "returned" /\ Matched
    /\ invoked[1] = Caller(2)
    /\ MatchedParser.kind = "PlainText"
    /\ resp.Body.content = "<ff>"
    /\ parseRet.type = "responseError"
    /\ slots[2] = StringVal("")

\* C22: a Raw parser that matched has stored the live response in the
\* caller's pointer and the body is neither read nor closed; a Raw parser
\* that did not match has left the caller's pointer as it was, and the
\* parser or fallback that matched instead has consumed and closed the body.
C22_RawHandsOver ==
    \A k \in 1..Len(parsers) :
        parsers[k].kind = "Raw" =>
            IF Matched /\ invoked[1] = Caller(k)
            THEN /\ slots[k] = ResponseVal
                 /\ ~bodyRead
                 /\ ~bodyClosed
            ELSE /\ slots[k] = NilVal
                 /\ (Matched /\ MatchedParser.kind # "Raw") =>
                       /\ bodyClosed
                       /\ MatchedParser.kind # "None" => bodyRead

\* A Raw parser with default options was passed over on a 404 response and
\* the built-in JSON fallback read and closed the body.
C22_Witness ==
    /\ pc = "returned"
    /\ Len(parsers) >= 1 /\ parsers[1].kind = "Raw"
    /\ resp.StatusCode = StatusNotFound
    /\ Matched /\ invoked[1] = Fallback(1)
    /\ slots[1] = NilVal
    /\ bodyRead /\ bodyClosed

\* C23: a parser built twice by the same factory with the same options
\* behaves the same: on equal responses, Parse with the first and Parse with
\* the second return the same result and leave the same value in the output
\* variable, whatever the process did in between.
C23_SameConstructionSameBehaviour ==
    (call # NoCall /\ call.fn = "second") => result.first = result.second

\* The bare media type of a Content-Type header value: the parameters are
\* dropped.
BareMediaType(h) == IF h = "text/plain; charset=utf-8" THEN "text/plain" ELSE h

\* parse was called on a response whose Content-Type parses and whose
\* status Matches accepts as an argument.
ParseCalled ==
    /\ call # NoCall /\ call.fn = "parse"
    /\ call.resp.Header # ""
    /\ call.resp.StatusCode \in 100..599

\* The two checks of the parser parse was called with, by their description.
ContentTypeCheck == call.p.ctype = "" \/ call.p.ctype = BareMediaType(call.resp.Header)
StatusCheck == Documented(call.p.statusSpec, call.resp.StatusCode)

\* C24: when the content-type check or the status check rejects the
\* response, parse returns false and a structured error with the status
\* code, the actual and the expected content type, ContentTypeOK as the
\* content-type check alone decided, a nil Body and a nil DecodingError;
\* the decoder is not invoked.
C24_MismatchOutcome ==
    (ParseCalled /\ (~ContentTypeCheck \/ ~StatusCheck)) =>
        /\ ~result.panic
        /\ ~result.matched
        /\ result.err = [type |-> "responseError",
                         StatusCode |-> call.resp.StatusCode,
                         ContentType |-> BareMediaType(call.resp.Header),
                         WantedContentType |-> call.p.ctype,
                         ContentTypeOK |-> ContentTypeCheck,
                         Body |-> NilVal,
                         DecodingError |-> NilErr]
        /\ ~result.invoked
        /\ ~result.read /\ ~result.closed
        /\ result.slot = InitSlot(call.p.kind)

\* Only the status check failed: a JSON parser for 2xx on a 404
\* application/json response, with ContentTypeOK true.
C24_Witness ==
    /\ ParseCalled
    /\ call.p = JSON(<<>>)
    /\ call.resp.StatusCode = StatusNotFound
    /\ call.resp.Header = "application/json"
    /\ ~result.matched
    /\ result.err.ContentTypeOK

\* C25: the content-type check passes iff the expected content type is
\* empty or is the bare media type of the response's Content-Type header,
\* and a parser matches iff this check and its status predicate both pass.
C25_MatchIffBothChecks ==
    ParseCalled =>
        /\ ~result.panic
        /\ result.matched <=> (ContentTypeCheck /\ StatusCheck)
        /\ ~result.matched => (result.err.ContentTypeOK <=> ContentTypeCheck)

\* A parser expecting text/plain matched a 200 response declared as
\* text/plain; charset=utf-8.
C25_Witness ==
    /\ ParseCalled
    /\ call.p.ctype = ContentTypeTextPlain
    /\ call.p.statusSpec = Status2xx
    /\ call.resp.Header = "text/plain; charset=utf-8"
    /\ call.resp.StatusCode = StatusOK
    /\ result.matched

\* The response of the call in progress has a Content-Type header that
\* cannot be parsed.
MalformedContentType == InParse /\ ~ParseMediaType(resp.Header).ok

\* C26: on a response whose Content-Type cannot be parsed, no parser
\* (caller's or fallback) evaluates its status predicate or invokes its
\* decoder, each reports the generic content-type parse error, Parse goes
\* on through all the caller parsers and the fallbacks, and firstErr is the
\* generic error of the first caller parser.
C26_MalformedContentType ==
    MalformedContentType =>
        /\ pc # "panicked"
        /\ invoked = <<>>
        /\ ~bodyRead /\ ~bodyClosed
        /\ \A k \in 1..Len(parsers) : slots[k] = InitSlot(parsers[k].kind)
        /\ firstErr = IF Len(tried) >= 1 /\ Len(parsers) >= 1
                      THEN PlainErr("cannot parse Content-Type string")
                      ELSE NilErr
        /\ pc = "fallback" => Len(tried) >= Len(parsers)
        /\ pc = "returned" => Len(tried) = Len(parsers) + Len(fallbackParsers)

\* Two caller parsers and the three fallbacks were tried on a response
\* without a parseable Content-Type whose status is outside [100,599], and
\* firstErr is the generic error.
C26_Witness ==
    /\ MalformedContentType
    /\ pc = "returned"
    /\ resp.StatusCode = 99
    /\ Len(parsers) = 2
    /\ Len(tried) = 5
    /\ firstErr = PlainErr("cannot parse Content-Type string")

\* A Parse call is running; it has ended (by a return, or by the panic of
\* Matches unwinding it).
Running == pc \in {"parsers", "fallback"}
Ended == pc \in {"returned", "panicked"}

\* C27: Parse terminates, after at most len(parsers) + 3 single-parser
\* matches: each caller parser at most once, in order, then each of the
\* three fallbacks at most once, in order.
C27_ParseTerminates ==
    /\ [](/\ Len(tried) <= Len(parsers) + 3
          /\ \A j \in 1..Len(tried) :
                tried[j] = IF j <= Len(parsers) THEN Caller(j)
                           ELSE Fallback(j - Len(parsers)))
    /\ (Running ~> Ended)

\* A call with two caller parsers returned after five matches.
C27_Witness ==
    /\ pc = "returned"
    /\ Len(parsers) = 2
    /\ Len(tried) = Len(parsers) + 3

\* C28: an option changes one field of the parser and leaves the others:
\* ContentType the expected content type, a StatusSpec the status
\* predicate, ReturnError the error-forcing flag, which it sets and no
\* option clears; none changes the decoder.
C28_OptionFrame ==
    (call # NoCall /\ call.fn = "applyToParser") =>
        /\ result.kind = call.p.kind
        /\ result.ctype = IF call.o.opt = "ContentType" THEN call.o.ctype ELSE call.p.ctype
        /\ result.statusSpec =
             IF call.o.opt = "StatusSpec" THEN call.o.spec ELSE call.p.statusSpec
        /\ result.retErr = (call.p.retErr \/ call.o.opt = "ReturnError")

\* ContentType("") was applied to the text/plain fallback, whose status
\* predicate and error-forcing flag are not the defaults: both are kept.
C28_Witness ==
    /\ call # NoCall /\ call.fn = "applyToParser"
    /\ call.o = ContentType("")
    /\ call.p = fallbackParsers[2]
    /\ result.ctype = ""
    /\ result.statusSpec = Status4xx5xx
    /\ result.retErr

\* C29 (v1): no parser reads the body after closing it: on a response with
\* a status outside [200,299], content type application/json and a
\* well-formed body, each of Raw, JSON, Bytes and None returns a StatusError
\* with the decoded value as Body and a nil DecodingError, and the body is
\* closed when the parser returns.
C29_V1NoReadAfterClose ==
    (call # NoCall /\ call.fn = "parser"
       /\ call.resp.Header = "application/json"
       /\ call.resp.StatusCode \notin 200..299
       /\ call.resp.Body.content = "{\"foo\": 42}") =>
        /\ ~result.readAfterClose
        /\ result.err = StatusError(call.resp.StatusCode, "application/json",
                                    JSONVal("map[foo:42]"), NilErr)
        /\ result.closed

\* verify was called on a response whose Content-Type parses.
VerifyCalled ==
    call # NoCall /\ call.fn = "verify" /\ call.resp.Header # ""

\* C30 (v1): verify checks in a fixed order: a Content-Type that does not
\* parse gives the generic error whatever the rest; otherwise a status
\* outside [200,299] gives a StatusError whatever the content type; a
\* ContentTypeError is returned only for a 2xx response whose media type
\* differs from a non-empty expected type; nil only for a 2xx response with
\* an acceptable content type.
C30_V1VerifyOrder ==
    (call # NoCall /\ call.fn = "verify") =>
        /\ call.resp.Header = "" =>
              result = PlainErr("cannot parse Content-Type string")
        /\ (VerifyCalled /\ call.resp.StatusCode \notin 200..299) =>
              /\ result.type = "StatusError"
              /\ result.StatusCode = call.resp.StatusCode
        /\ result.type = "ContentTypeError" <=>
              /\ VerifyCalled
              /\ call.resp.StatusCode \in 200..299
              /\ call.expected # ""
              /\ BareMediaType(call.resp.Header) # call.expected
        /\ result = NilErr <=>
              /\ VerifyCalled
              /\ call.resp.StatusCode \in 200..299
              /\ (call.expected = "" \/ BareMediaType(call.resp.Header) = call.expected)

\* A 404 response of another content type than the expected one gave a
\* StatusError, not a ContentTypeError.
C30_Witness ==
    /\ VerifyCalled
    /\ call.resp.StatusCode = StatusNotFound
    /\ call.expected = ContentTypeJSON
    /\ call.resp.Header = "image/png"
    /\ result.type = "StatusError"

====
